---- MODULE Spec2Model ----
(***************************************************************************)
(* A model of restful.go: the path normalizer, the response factories, the *)
(* route registration of a Service and the per-request handler closures    *)
(* (initRequest, logRequest, the method switch, SendResponse).             *)
(*                                                                         *)
(* A Go string is the sequence of its characters; a constant text that the *)
(* program never looks into (a content type, an error text, a request id)  *)
(* is kept as one piece.  A []byte is the sequence of its bytes, and a nil *)
(* slice is the empty sequence: the program only reads len() of it.        *)
(***************************************************************************)
EXTENDS Naturals, Sequences, FiniteSets

VARIABLES
    call,        \* SpecPure: the function applied last and its arguments
    result,      \* SpecPure: what it returned
    controller,  \* the registered controller: its Url and the operations it overrides
    routes,      \* Service.Router: the routes in registration order
    serving,     \* Forever has been called: the listener accepts requests
    halted,      \* os.Exit, reached through log.Fatal, has ended the process
    uuidCalls,   \* how many identifiers the generator has produced
    http,        \* per inbound request: method, path, the route matched and its handler
    pc,          \* per inbound request: the position of its handler goroutine
    request,     \* the handler closure's local `request`
    response,    \* the handler closure's local `response`
    trace        \* per inbound request: what its goroutine did, in order

vars == <<call, result, controller, routes, serving, halted, uuidCalls,
          http, pc, request, response, trace>>

pureVars == <<call, result>>
pipeVars == <<controller, routes, serving, halted, uuidCalls,
              http, pc, request, response, trace>>

----------------------------------------------------------------------------
(* Bounds *)

\* longest string handed to a pure function
MaxLen == 3
\* most Register/RegisterAction calls before Forever
MaxRegistrations == 2
\* requests in flight at once
NReq == 2

Chars == {"/", "a", "b"}
Strings == UNION {[1..k -> Chars] : k \in 0..MaxLen}

Last(s) == s[Len(s)]

----------------------------------------------------------------------------
(* Special functions *)

correctCollectionPathAlwaysAppends(collectionPath) ==
    collectionPath \o <<"/">>

correctCollectionPath(collectionPath) ==
    IF collectionPath = <<>> THEN <<"/">>
    ELSE IF Last(collectionPath) # "/" THEN collectionPath \o <<"/">>
    ELSE collectionPath

(* Basic HTTP codes *)
ScOK == 200
ScCreated == 201
ScNoContent == 204
ScInternalServerError == 500
ScBadRequest == 400
ScNotFound == 404
ScMethodNotAllowed == 405
ScConflict == 409
ScUnprocessableEntity == 422

APPLICATION_JSON == <<"application/json">>
PLAIN_TEXT == <<"text/plain">>

----------------------------------------------------------------------------
(* Response and its factories.  The zero value of every field is the empty *)
(* sequence, and of Code 0.                                                *)

Response(code, contentType, location, uuid, data) ==
    [Code |-> code, ContentType |-> contentType, Location |-> location,
     Uuid |-> uuid, Headers |-> <<>>, Data |-> data]

\* []byte(s): the bytes of s
Bytes(s) == s

Created(uuid, location) == Response(ScCreated, <<>>, location, uuid, <<>>)
Updated == Response(ScCreated, <<>>, <<>>, <<>>, <<>>)
DeletedNoContent == Response(ScNoContent, <<>>, <<>>, <<>>, <<>>)
Deleted == Response(ScCreated, <<>>, <<>>, <<>>, <<>>)
BadRequest == Response(ScBadRequest, <<>>, <<>>, <<>>, <<>>)
InternalServerError(errinfo) ==
    Response(ScInternalServerError, PLAIN_TEXT, <<>>, <<>>, Bytes(errinfo))
NotFound == Response(ScNotFound, <<>>, <<>>, <<>>, <<>>)
Conflict == Response(ScConflict, <<>>, <<>>, <<>>, <<>>)
MethodNotAllowed == Response(ScMethodNotAllowed, <<>>, <<>>, <<>>, <<>>)
UnprocessableEntity(message) ==
    Response(ScUnprocessableEntity, <<>>, <<>>, <<>>, Bytes(message))
Plain(answer) == Response(ScOK, PLAIN_TEXT, <<>>, <<>>, Bytes(answer))

\* The Go values handed to Json: strings, booleans, nil, and two values of
\* types encoding/json refuses.
GoValues ==
    {[kind |-> "string", val |-> s] : s \in {t \in Strings : Len(t) <= 1}}
    \cup {[kind |-> "bool", val |-> <<"true">>], [kind |-> "bool", val |-> <<"false">>],
          [kind |-> "nil", val |-> <<>>],
          [kind |-> "chan int", val |-> <<>>], [kind |-> "func()", val |-> <<>>]}

\* json.Marshal: the encoding, or the UnsupportedTypeError's text
Marshal(obj) ==
    CASE obj.kind = "string" ->
             [err |-> <<>>, bytes |-> <<"\"">> \o obj.val \o <<"\"">>]
      [] obj.kind = "bool" -> [err |-> <<>>, bytes |-> obj.val]
      [] obj.kind = "nil" -> [err |-> <<>>, bytes |-> <<"null">>]
      [] OTHER -> [err |-> <<"json: unsupported type: ", obj.kind>>, bytes |-> <<>>]

Json(obj) ==
    LET m == Marshal(obj) IN
    IF m.err # <<>> THEN InternalServerError(m.err)
    ELSE Response(ScOK, APPLICATION_JSON, <<>>, <<>>, m.bytes)

\* Controller.RootUrl and Controller.Location
RootUrl(url) == correctCollectionPath(url)
Location(url, uuid) == RootUrl(url) \o uuid

\* Register and RegisterAction: correctCollectionPath(controller.RootUrl())
correctedPath(url) == correctCollectionPath(RootUrl(url))

----------------------------------------------------------------------------
(* SpecPure: the pure functions applied to every argument within MaxLen.   *)

Applied(fn, args, value) ==
    /\ call.fn = "none"
    /\ call' = [fn |-> fn, args |-> args]
    /\ result' = value
    /\ UNCHANGED pipeVars

ApplyCorrectCollectionPath ==
    \E s \in Strings : Applied("correctCollectionPath", <<s>>, correctCollectionPath(s))

\* Controller{Url: s}.RootUrl()
ApplyRootUrl ==
    \E s \in Strings : Applied("RootUrl", <<s>>, RootUrl(s))

\* the path Register hands to the router for Controller{Url: s}
ApplyRegisterPath ==
    \E s \in Strings : Applied("Register", <<s>>, correctedPath(s))

ApplyCreated ==
    \E u \in Strings, l \in Strings : Applied("Created", <<u, l>>, Created(u, l))

ApplyNoArgument ==
    \E f \in {"Updated", "Deleted", "BadRequest", "NotFound", "Conflict",
              "MethodNotAllowed"} :
        Applied(f, <<>>,
                CASE f = "Updated" -> Updated
                  [] f = "Deleted" -> Deleted
                  [] f = "BadRequest" -> BadRequest
                  [] f = "NotFound" -> NotFound
                  [] f = "Conflict" -> Conflict
                  [] f = "MethodNotAllowed" -> MethodNotAllowed)

ApplyText ==
    \E f \in {"InternalServerError", "UnprocessableEntity", "Plain"}, s \in Strings :
        Applied(f, <<s>>,
                CASE f = "InternalServerError" -> InternalServerError(s)
                  [] f = "UnprocessableEntity" -> UnprocessableEntity(s)
                  [] f = "Plain" -> Plain(s))

ApplyJson ==
    \E v \in GoValues : Applied("Json", <<v>>, Json(v))

----------------------------------------------------------------------------
(* The service: one controller, its routes, the requests in flight.        *)

Reqs == 1..NReq

Ops == {"Create", "Get", "Update", "Delete", "List"}

\* The controller Urls of the pipeline specifications: empty, without and
\* with the trailing separator.
CtrlUrls == {<<>>, <<"/", "a">>, <<"/", "a", "/">>}

Methods == {"GET", "POST", "PUT", "DELETE", "PATCH"}

invoke == <<"i", "n", "v", "o", "k", "e">>

\* What an overridden operation of the controller may return.
ControllerResults(url) ==
    {Created(<<"b">>, Location(url, <<"b">>)), Plain(<<"a">>), NotFound}

\* The paths requested: the root, an item and the action.
RequestPaths(url) ==
    {RootUrl(url) \o sfx : sfx \in {<<>>, <<"a">>, invoke}}

\* The n-th identifier uuid.NewV4 produces: identifiers do not repeat.
UuidPool == <<"uuid-1", "uuid-2", "uuid-3", "uuid-4", "uuid-5", "uuid-6">>

\* genuuid4: the identifier, or "" and the error
genuuid4(n, err) ==
    IF err THEN [uuid |-> <<>>, err |-> TRUE]
    ELSE [uuid |-> <<UuidPool[n]>>, err |-> FALSE]

\* The zero values of the closure's locals.
ZeroRequest == [RequestID |-> <<>>, Service |-> "nil", HttpRequest |-> 0]
ZeroResponse == Response(0, <<>>, <<>>, <<>>, <<>>)
NoHttp == [Method |-> "", Path |-> <<>>, route |-> "none", handler |-> "none"]

\* mux: a route template matches a whole path; {name} stands for one or more
\* characters other than the separator.
RECURSIVE MuxMatch(_, _)
MuxMatch(tpl, path) ==
    IF tpl = <<>> THEN path = <<>>
    ELSE IF Head(tpl) = "{"
    THEN LET close == CHOOSE i \in 1..Len(tpl) :
                          tpl[i] = "}" /\ \A j \in 1..(i - 1) : tpl[j] # "}"
             rest == SubSeq(tpl, close + 1, Len(tpl))
         IN \E k \in 1..Len(path) :
                /\ \A i \in 1..k : path[i] # "/"
                /\ MuxMatch(rest, SubSeq(path, k + 1, Len(path)))
    ELSE /\ path # <<>>
         /\ Head(path) = Head(tpl)
         /\ MuxMatch(Tail(tpl), Tail(path))

\* mux.Router: the first route registered whose template matches; 0 if none
RouteFor(rs, path) ==
    IF \E i \in 1..Len(rs) : MuxMatch(rs[i].template, path)
    THEN CHOOSE i \in 1..Len(rs) :
             /\ MuxMatch(rs[i].template, path)
             /\ \A j \in 1..(i - 1) : ~MuxMatch(rs[j].template, path)
    ELSE 0

\* Register and RegisterAction each install one collection handler.
Registrations == Cardinality({i \in 1..Len(routes) : routes[i].kind # "item"})

PipeInit(ctrl) ==
    /\ controller = ctrl
    /\ routes = <<>>
    /\ serving = FALSE
    /\ halted = FALSE
    /\ uuidCalls = 0
    /\ http = [r \in Reqs |-> NoHttp]
    /\ pc = [r \in Reqs |-> "idle"]
    /\ request = [f \in Reqs |-> ZeroRequest]
    /\ response = [f \in Reqs |-> ZeroResponse]
    /\ trace = [r \in Reqs |-> <<>>]

PureIdle ==
    /\ call = [fn |-> "none", args |-> <<>>]
    /\ result = <<>>

Register ==
    /\ ~serving
    /\ Registrations < MaxRegistrations
    /\ routes' = routes \o
           << [template |-> correctedPath(controller.Url),
               kind |-> "collection", handler |-> "collection"],
              [template |-> correctedPath(controller.Url) \o <<"{", "u", "u", "i", "d", "}">>,
               kind |-> "item", handler |-> "item"] >>
    /\ UNCHANGED <<controller, serving, halted, uuidCalls, http, pc, request,
                   response, trace, pureVars>>

RegisterAction ==
    /\ ~serving
    /\ Registrations < MaxRegistrations
    /\ routes' = Append(routes,
           [template |-> correctedPath(controller.Url) \o invoke,
            kind |-> "action", handler |-> "collection"])
    /\ UNCHANGED <<controller, serving, halted, uuidCalls, http, pc, request,
                   response, trace, pureVars>>

Forever ==
    /\ ~serving
    /\ serving' = TRUE
    /\ UNCHANGED <<controller, routes, halted, uuidCalls, http, pc, request,
                   response, trace, pureVars>>

----------------------------------------------------------------------------
(* The handler closures, one goroutine per inbound request.                *)

\* The closure's locals `request` and `response` belong to the invocation.
SharedFrame(r) == CHOOSE f \in Reqs : \A g \in Reqs : f <= g

Frame(r) == r

Emit(r, events) == trace' = [trace EXCEPT ![r] = trace[r] \o events]
Goto(r, label) == pc' = [pc EXCEPT ![r] = label]

\* The router hands inbound request r to the handler of the first matching
\* route; a path no route matches never reaches a handler of this package.
Serve(r, m, p) ==
    /\ serving /\ ~halted
    /\ pc[r] = "idle"
    /\ RouteFor(routes, p) # 0
    /\ http' = [http EXCEPT ![r] =
                   [Method |-> m, Path |-> p,
                    route |-> routes[RouteFor(routes, p)].kind,
                    handler |-> routes[RouteFor(routes, p)].handler]]
    /\ Goto(r, "initRequest")
    /\ UNCHANGED <<controller, routes, serving, halted, uuidCalls, request,
                   response, trace, pureVars>>

\* initRequest without the log.Fatal: the request goes on with the empty id
InitRequestGoesOn(r, err) ==
    /\ ~halted
    /\ pc[r] = "initRequest"
    /\ LET g == genuuid4(uuidCalls + 1, err) IN
       /\ uuidCalls' = uuidCalls + 1
       /\ request' = [request EXCEPT ![Frame(r)] =
              [RequestID |-> g.uuid, Service |-> "service", HttpRequest |-> r]]
       /\ Emit(r, <<[ev |-> "genuuid4", id |-> g.uuid, err |-> g.err]>>)
       /\ Goto(r, "logRequest")
    /\ UNCHANGED <<controller, routes, serving, halted, http, response, pureVars>>

InitRequest(r, err) ==
    /\ ~halted
    /\ pc[r] = "initRequest"
    /\ LET g == genuuid4(uuidCalls + 1, err) IN
       /\ uuidCalls' = uuidCalls + 1
       /\ IF g.err
          THEN /\ request' = [request EXCEPT ![Frame(r)].RequestID = g.uuid]
               /\ Emit(r, <<[ev |-> "genuuid4", id |-> g.uuid, err |-> g.err]>>)
               /\ halted' = halted
               /\ Goto(r, "log.Fatal")
          ELSE /\ request' = [request EXCEPT ![Frame(r)] =
                      [RequestID |-> g.uuid, Service |-> "service", HttpRequest |-> r]]
               /\ Emit(r, <<[ev |-> "genuuid4", id |-> g.uuid, err |-> g.err]>>)
               /\ halted' = halted
               /\ Goto(r, "logRequest")
    /\ UNCHANGED <<controller, routes, serving, http, response, pureVars>>

\* log.Fatal(err), first half: the line goes to the log, under the logger's
\* lock; the process is still running.
LogFatal(r) ==
    /\ ~halted
    /\ pc[r] = "log.Fatal"
    /\ Emit(r, <<[ev |-> "log.Fatal"]>>)
    /\ Goto(r, "os.Exit")
    /\ UNCHANGED <<controller, routes, serving, halted, uuidCalls, http, request,
                   response, pureVars>>

\* log.Fatal(err), second half: os.Exit(1) ends the process and with it every
\* goroutine, wherever it stands.
OsExit(r) ==
    /\ ~halted
    /\ pc[r] = "os.Exit"
    /\ Emit(r, <<[ev |-> "os.Exit"]>>)
    /\ halted' = TRUE
    /\ Goto(r, "exited")
    /\ UNCHANGED <<controller, routes, serving, uuidCalls, http, request,
                   response, pureVars>>

\* logRequest(request)
logRequest(req) ==
    [ev |-> "logRequest", id |-> req.RequestID,
     method |-> http[req.HttpRequest].Method, url |-> http[req.HttpRequest].Path]

LogRequest(r) ==
    /\ ~halted
    /\ pc[r] = "logRequest"
    /\ Emit(r, <<logRequest(request[Frame(r)])>>)
    /\ Goto(r, "switch")
    /\ UNCHANGED <<controller, routes, serving, halted, uuidCalls, http, request,
                   response, pureVars>>

\* The method switch of each handler: the operation to call, "none" for default.
itemSwitchPostCreates(method) ==
    CASE method = "GET" -> "Get"
      [] method = "PUT" -> "Update"
      [] method = "DELETE" -> "Delete"
      [] method = "POST" -> "Create"
      [] OTHER -> "none"

itemSwitch(method) ==
    CASE method = "GET" -> "Get"
      [] method = "PUT" -> "Update"
      [] method = "DELETE" -> "Delete"
      [] OTHER -> "none"

collectionSwitch(method) ==
    CASE method = "GET" -> "List"
      [] method = "POST" -> "Create"
      [] OTHER -> "none"

\* The embedded Controller's operations, which a controller inherits.
BaseOperationGetNotFound(op) ==
    IF op = "Get" THEN NotFound ELSE MethodNotAllowed

BaseOperation(op) == MethodNotAllowed

\* controller.<op>(request): the override's result, or the inherited one
Operation(op, overridden) ==
    IF op \in controller.overrides THEN overridden ELSE BaseOperation(op)

Dispatch(r, overridden) ==
    /\ ~halted
    /\ pc[r] = "switch"
    /\ LET method == http[r].Method
           op == IF http[r].handler = "item" THEN itemSwitch(method)
                 ELSE collectionSwitch(method)
           resp == IF op = "none" THEN MethodNotAllowed
                   ELSE Operation(op, overridden)
       IN /\ response' = [response EXCEPT ![Frame(r)] = resp]
          /\ Emit(r, <<[ev |-> "dispatch", op |-> op,
                        request |-> IF op = "none" THEN ZeroRequest
                                    ELSE request[Frame(r)],
                        returned |-> resp]>>)
    /\ Goto(r, "logResponse")
    /\ UNCHANGED <<controller, routes, serving, halted, uuidCalls, http, request,
                   pureVars>>

\* logResponse(request, response)
logResponseOK(req, resp) ==
    [ev |-> "logResponse", id |-> req.RequestID, code |-> ScOK]

logResponse(req, resp) ==
    [ev |-> "logResponse", id |-> req.RequestID, code |-> resp.Code]

LogResponse(r) ==
    /\ ~halted
    /\ pc[r] = "logResponse"
    /\ Emit(r, <<logResponse(request[Frame(r)], response[Frame(r)])>>)
    /\ Goto(r, "headers")
    /\ UNCHANGED <<controller, routes, serving, halted, uuidCalls, http, request,
                   response, pureVars>>

HeaderSet(key, value) ==
    IF value # <<>> THEN <<[ev |-> "Header.Set", key |-> key, value |-> value]>>
    ELSE <<>>

\* SendResponse: the three conditional rw.Header().Set calls
HeaderSetsUuidFirst(resp) ==
    HeaderSet("X-UUID", resp.Uuid)
    \o HeaderSet("Content-Type", resp.ContentType)
    \o HeaderSet("Location", resp.Location)

HeaderSets(resp) ==
    HeaderSet("Content-Type", resp.ContentType)
    \o HeaderSet("Location", resp.Location)
    \o HeaderSet("X-UUID", resp.Uuid)

SetHeaders(r) ==
    /\ ~halted
    /\ pc[r] = "headers"
    /\ Emit(r, HeaderSets(response[Frame(r)]))
    /\ Goto(r, "WriteHeader")
    /\ UNCHANGED <<controller, routes, serving, halted, uuidCalls, http, request,
                   response, pureVars>>

\* rw.WriteHeader(response.Code)
StatusLineTwice(resp) ==
    <<[ev |-> "WriteHeader", code |-> resp.Code],
      [ev |-> "WriteHeader", code |-> resp.Code]>>

StatusLine(resp) == <<[ev |-> "WriteHeader", code |-> resp.Code]>>

WriteHeader(r) ==
    /\ ~halted
    /\ pc[r] = "WriteHeader"
    /\ Emit(r, StatusLine(response[Frame(r)]))
    /\ Goto(r, "Write")
    /\ UNCHANGED <<controller, routes, serving, halted, uuidCalls, http, request,
                   response, pureVars>>

\* if len(response.Data) != 0 { rw.Write(response.Data) }
BodyWrite(resp) ==
    IF Len(resp.Data) # 0 THEN <<[ev |-> "Write", data |-> resp.Data]>> ELSE <<>>

WriteBody(r) ==
    /\ ~halted
    /\ pc[r] = "Write"
    /\ Emit(r, BodyWrite(response[Frame(r)]))
    /\ Goto(r, "done")
    /\ UNCHANGED <<controller, routes, serving, halted, uuidCalls, http, request,
                   response, pureVars>>

\* One step of the handler serving request r.
HandlerStep(r, results) ==
    \/ \E err \in BOOLEAN : InitRequest(r, err)
    \/ LogFatal(r)
    \/ OsExit(r)
    \/ LogRequest(r)
    \/ \E res \in results : Dispatch(r, res)
    \/ LogResponse(r)
    \/ SetHeaders(r)
    \/ WriteHeader(r)
    \/ WriteBody(r)

----------------------------------------------------------------------------
(* Specifications *)

\* Spec: every controller, every registration order, one request.
Init ==
    /\ PureIdle
    /\ \E url \in CtrlUrls, ov \in SUBSET Ops :
           PipeInit([Url |-> url, overrides |-> ov])

Next ==
    \/ Register
    \/ RegisterAction
    \/ Forever
    \/ \E r \in {1} :
        \/ \E m \in Methods, p \in RequestPaths(controller.Url) : Serve(r, m, p)
        \/ HandlerStep(r, ControllerResults(controller.Url))

Spec == Init /\ [][Next]_vars

\* SpecConc: NReq requests in flight at once on one registered controller.
ConcController == [Url |-> <<"/", "a">>, overrides |-> {"List", "Get"}]
ConcMethods == {"GET", "POST"}
ConcPaths == {RootUrl(ConcController.Url)}
ConcResults == {Created(<<"b">>, Location(ConcController.Url, <<"b">>)), Plain(<<"a">>)}

InitConc ==
    /\ PureIdle
    /\ PipeInit(ConcController)

NextConc ==
    \/ Register
    \/ Forever
    \/ \E r \in Reqs :
        \/ \E m \in ConcMethods, p \in ConcPaths : Serve(r, m, p)
        \/ HandlerStep(r, ConcResults)

SpecConc == InitConc /\ [][NextConc]_vars

\* A goroutine inside log.Fatal goes on to the exit: the logger's lock is
\* held only for the length of one line.
FairSpecConc ==
    SpecConc /\ \A r \in Reqs : WF_vars(LogFatal(r) \/ OsExit(r))

\* SpecPure: the pure functions.
InitPure ==
    /\ PureIdle
    /\ PipeInit(ConcController)

NextPure ==
    \/ ApplyCorrectCollectionPath
    \/ ApplyRootUrl
    \/ ApplyRegisterPath
    \/ ApplyCreated
    \/ ApplyNoArgument
    \/ ApplyText
    \/ ApplyJson

SpecPure == InitPure /\ [][NextPure]_vars

----------------------------------------------------------------------------
(* What a request's trace shows. *)

Events(r, kind) == SelectSeq(trace[r], LAMBDA e : e.ev = kind)
Count(r, kind) == Len(Events(r, kind))

\* the events of the given kinds, in the order they happened
EventsAmong(r, kinds) == SelectSeq(trace[r], LAMBDA e : e.ev \in kinds)

\* the identifier generated for request r, once it has been
Generated(r) == Events(r, "genuuid4")[1].id

\* the envelope request r's own dispatch produced
Returned(r) == Events(r, "dispatch")[1].returned

AfterDispatch == {"logResponse", "headers", "WriteHeader", "Write", "done"}

IsPrefix(s, t) == Len(s) <= Len(t) /\ s = SubSeq(t, 1, Len(s))

EmptyEnvelope(resp, code) ==
    /\ resp.Code = code
    /\ resp.ContentType = <<>>
    /\ resp.Location = <<>>
    /\ resp.Uuid = <<>>
    /\ resp.Headers = <<>>
    /\ resp.Data = <<>>

----------------------------------------------------------------------------
(* Claims *)

\* C1: the method switch follows the fixed table.  On a collection route GET
\* calls List and POST calls Create; on an item route GET calls Get, PUT calls
\* Update and DELETE calls Delete; any other pair calls no operation and
\* answers 405 with an empty body.  A request makes at most one call.
C1_DispatchTable ==
    \A r \in Reqs :
        /\ Count(r, "dispatch") <= 1
        /\ pc[r] \in AfterDispatch =>
            /\ Count(r, "dispatch") = 1
            /\ LET d == Events(r, "dispatch")[1]
                   m == http[r].Method
                   expected ==
                       IF http[r].handler = "item"
                       THEN CASE m = "GET" -> "Get"
                              [] m = "PUT" -> "Update"
                              [] m = "DELETE" -> "Delete"
                              [] OTHER -> "none"
                       ELSE CASE m = "GET" -> "List"
                              [] m = "POST" -> "Create"
                              [] OTHER -> "none"
               IN /\ d.op = expected
                  /\ d.op = "none" =>
                        /\ EmptyEnvelope(d.returned, 405)
                        /\ response[r] = d.returned
                        /\ pc[r] = "done" =>
                              /\ Events(r, "WriteHeader") = <<[ev |-> "WriteHeader", code |-> 405]>>
                              /\ Count(r, "Write") = 0

\* a POST on the item route was answered without a call
C1_Witness ==
    \E r \in Reqs :
        /\ pc[r] = "done"
        /\ http[r].route = "item"
        /\ http[r].Method = "POST"
        /\ Events(r, "dispatch")[1].op = "none"

\* C2: once RegisterAction has run, in any order with Register, a POST to
\* R/invoke calls Create and a GET to R/invoke calls List, as on the
\* collection route R/, and any other method calls nothing and answers 405.
C2_ActionRouteReachesCollectionSwitch ==
    \A r \in Reqs :
        ( /\ \E i \in 1..Len(routes) : routes[i].kind = "action"
          /\ http[r].Path = correctedPath(controller.Url) \o invoke
          /\ pc[r] \in AfterDispatch )
        => LET d == Events(r, "dispatch")[1]
               m == http[r].Method
           IN /\ m = "POST" => d.op = "Create"
              /\ m = "GET" => d.op = "List"
              /\ m \notin {"GET", "POST"} => d.op = "none"

\* C3: an operation the controller does not override answers 405 with an
\* empty body, and that is what reaches the transport.
C3_DefaultDeny ==
    \A r \in Reqs :
        pc[r] \in AfterDispatch =>
            LET d == Events(r, "dispatch")[1] IN
            (d.op # "none" /\ d.op \notin controller.overrides) =>
                /\ EmptyEnvelope(d.returned, 405)
                /\ \A i \in 1..Count(r, "WriteHeader") :
                       Events(r, "WriteHeader")[i].code = 405
                /\ Count(r, "Write") = 0
                /\ Count(r, "Header.Set") = 0
                /\ pc[r] = "done" => Count(r, "WriteHeader") = 1

\* a controller overriding only List has answered a DELETE on its item route
C3_Witness ==
    /\ controller.overrides = {"List"}
    /\ \E r \in Reqs :
        /\ pc[r] = "done"
        /\ http[r].Method = "DELETE"
        /\ Events(r, "dispatch")[1].op = "Delete"
        /\ Events(r, "WriteHeader")[1].code = 405

\* A request the process is done with: its handler returned, or the process
\* exited while it was in flight.
Left(r) == pc[r] = "done" \/ (halted /\ pc[r] # "idle")

\* C4 as stated: every request that reached a handler is left with exactly
\* one envelope and exactly one status line.
C4_ExactlyOneResponseAlways ==
    \A r \in Reqs :
        Left(r) => Count(r, "dispatch") = 1 /\ Count(r, "WriteHeader") = 1

\* C4 amended: no request ever gets two envelopes or two status lines; a
\* request whose handler returns got exactly one of each, with the body after
\* the status line when there is one; and a request in flight can always take
\* its next step unless the process has halted on an identifier failure.
C4_ExactlyOneResponseUnlessHalted ==
    \A r \in Reqs :
        /\ Count(r, "dispatch") <= 1
        /\ Count(r, "WriteHeader") <= 1
        /\ Count(r, "Write") <= 1
        /\ pc[r] = "done" =>
              /\ Count(r, "dispatch") = 1
              /\ Count(r, "WriteHeader") = 1
              /\ Count(r, "Write") = (IF Returned(r).Data # <<>> THEN 1 ELSE 0)
        /\ (pc[r] \notin {"idle", "done"} /\ ~ENABLED HandlerStep(r, ConcResults)) =>
              /\ halted
              /\ \E q \in Reqs : pc[q] = "exited"

\* one request was answered with its one status line and its body; then the
\* generator failed for the other, which is left without a response
C4_Witness ==
    \E r, q \in Reqs :
        /\ pc[r] = "done" /\ Count(r, "WriteHeader") = 1 /\ Count(r, "Write") = 1
        /\ pc[q] = "exited" /\ Count(q, "WriteHeader") = 0
        /\ halted

\* C5 as stated: every request that reached a handler is left with exactly
\* one response-sent log entry, carrying its identifier and the status code
\* written to its transport.
C5_ExactlyOneExitLogAlways ==
    \A r \in Reqs :
        Left(r) =>
            /\ Count(r, "logResponse") = 1
            /\ Count(r, "WriteHeader") = 1
            /\ Events(r, "logResponse")[1].id = Generated(r)
            /\ Events(r, "logResponse")[1].code = Events(r, "WriteHeader")[1].code

\* C5 amended: no request has two response-sent log entries; a request whose
\* handler returns has exactly one; and whenever a status line is written
\* for a request, its one entry is already there, carrying the request's own
\* identifier and that status code.
C5_ExitLogMatchesStatus ==
    \A r \in Reqs :
        LET lg == Events(r, "logResponse")
            st == Events(r, "WriteHeader")
        IN /\ Len(lg) <= 1
           /\ pc[r] = "done" => Len(lg) = 1
           /\ Len(st) > 0 =>
                 /\ Len(lg) = 1
                 /\ lg[1].id = Generated(r)
                 /\ lg[1].id # <<>>
                 /\ \A i \in 1..Len(st) : st[i].code = lg[1].code

\* one request ended in 405 and another in 201, both logged
C5_Witness ==
    \E r, q \in Reqs :
        /\ pc[r] = "done" /\ Events(r, "logResponse")[1].code = 405
        /\ pc[q] = "done" /\ Events(q, "logResponse")[1].code = 201

\* The generator has failed for request r.
Failed(r) == \E i \in 1..Count(r, "genuuid4") : Events(r, "genuuid4")[i].err

\* A request the generator failed for keeps the empty identifier, logs no
\* entry event, calls no operation and writes nothing; all it can do, and can
\* do as long as the process runs, is log.Fatal's line and then the exit,
\* after which no request takes a step.  No entry is logged and no status
\* line written for a request with the empty identifier.
FatalPathOnly ==
    /\ \A r \in Reqs :
          Failed(r) =>
              /\ pc[r] \in {"log.Fatal", "os.Exit", "exited"}
              /\ request[r].RequestID = <<>>
              /\ EventsAmong(r, {"logRequest", "dispatch", "logResponse",
                                 "Header.Set", "WriteHeader", "Write"}) = <<>>
              /\ pc[r] = "exited" => halted
              /\ ~halted => ENABLED (LogFatal(r) \/ OsExit(r))
              /\ ~ENABLED (LogRequest(r) \/ \E res \in ConcResults : Dispatch(r, res)
                           \/ LogResponse(r) \/ SetHeaders(r) \/ WriteHeader(r)
                           \/ WriteBody(r))
    /\ halted => /\ ~ENABLED NextConc
                 /\ \E r \in Reqs : Failed(r) /\ pc[r] = "exited"
    /\ \A r \in Reqs :
          Count(r, "WriteHeader") + Count(r, "logRequest") > 0 => Generated(r) # <<>>

\* C6: when the identifier generator fails for a request, the pipeline does
\* not go on for it (no entry log event, no operation called, nothing written
\* with the empty identifier), and the process halts instead of serving it.
C6_FatalOnIdentifierFailure ==
    /\ []FatalPathOnly
    /\ \A r \in Reqs : Failed(r) ~> halted

\* the generator failed for both requests: one has exited the process, the
\* other was cut off before its fatal line
C6_Witness ==
    \E r, q \in Reqs :
        /\ pc[r] = "exited"
        /\ Events(r, "genuuid4")[1].err
        /\ pc[q] = "log.Fatal"
        /\ Failed(q)

\* C7: correctCollectionPath returns a path ending in the separator: "/" for
\* the empty path, the path itself when it already ends in one, the path with
\* one separator appended otherwise; applying it again changes nothing, so
\* the path Register routes equals RootUrl().
C7_NormalizerLaws ==
    /\ call.fn = "correctCollectionPath" =>
          LET s == call.args[1] IN
          /\ result # <<>>
          /\ result[Len(result)] = "/"
          /\ s = <<>> => result = <<"/">>
          /\ (s # <<>> /\ s[Len(s)] = "/") => result = s
          /\ (s # <<>> /\ s[Len(s)] # "/") =>
                /\ Len(result) = Len(s) + 1
                /\ SubSeq(result, 1, Len(s)) = s
          /\ correctCollectionPath(result) = result
    /\ call.fn = "RootUrl" =>
          /\ result # <<>>
          /\ result[Len(result)] = "/"
    /\ call.fn = "Register" => result = RootUrl(call.args[1])

\* Register on Controller{Url: "/a"} routes "/a/"; a path ending in "//" is
\* kept as it is
C7_Witness ==
    \/ /\ call.fn = "Register"
       /\ call.args[1] = <<"/", "a">>
       /\ result = <<"/", "a", "/">>
    \/ /\ call.fn = "correctCollectionPath"
       /\ call.args[1] = <<"a", "/", "/">>
       /\ result = <<"a", "/", "/">>

\* C8: each factory returns the envelope of the table.
C8_FactoryTable ==
    LET none == <<>>
        Envelope(code, ct, loc, id, data) ==
            /\ result.Code = code
            /\ result.ContentType = ct
            /\ result.Location = loc
            /\ result.Uuid = id
            /\ result.Headers = none
            /\ result.Data = data
    IN
    /\ call.fn = "Created" =>
          Envelope(201, none, call.args[2], call.args[1], none)
    /\ call.fn = "Updated" => Envelope(201, none, none, none, none)
    /\ call.fn = "Deleted" => Envelope(201, none, none, none, none)
    /\ call.fn = "BadRequest" => Envelope(400, none, none, none, none)
    /\ call.fn = "NotFound" => Envelope(404, none, none, none, none)
    /\ call.fn = "Conflict" => Envelope(409, none, none, none, none)
    /\ call.fn = "MethodNotAllowed" => Envelope(405, none, none, none, none)
    /\ call.fn = "UnprocessableEntity" =>
          Envelope(422, none, none, none, call.args[1])
    /\ call.fn = "InternalServerError" =>
          Envelope(500, <<"text/plain">>, none, none, call.args[1])
    /\ call.fn = "Plain" =>
          Envelope(200, <<"text/plain">>, none, none, call.args[1])
    /\ call.fn = "Json" =>
          LET v == call.args[1] IN
          IF v.kind \in {"string", "bool", "nil"}
          THEN /\ Envelope(200, <<"application/json">>, none, none,
                           Marshal(v).bytes)
               /\ result.Data # none
          ELSE Envelope(500, <<"text/plain">>, none, none,
                        <<"json: unsupported type: ", v.kind>>)

\* Json of a channel fell back to the 500 envelope
C8_Witness ==
    /\ call.fn = "Json"
    /\ call.args[1].kind = "chan int"
    /\ result.Code = 500

\* The names of a request's events, a header write named by its key.
EventNames(r) ==
    [i \in 1..Len(trace[r]) |->
        IF trace[r][i].ev = "Header.Set" THEN trace[r][i].key ELSE trace[r][i].ev]

\* C9: a request's events happen in one order, none twice: identifier, entry
\* log, dispatch, exit log, Content-Type, Location and X-UUID (each only when
\* the envelope has it), status line, body (only when not empty); nothing
\* follows the body step.
C9_PipelineOrder ==
    \A r \in Reqs :
        LET before == <<"genuuid4", "logRequest", "dispatch", "logResponse">>
            e == Returned(r)
            whole ==
                before
                \o (IF e.ContentType # <<>> THEN <<"Content-Type">> ELSE <<>>)
                \o (IF e.Location # <<>> THEN <<"Location">> ELSE <<>>)
                \o (IF e.Uuid # <<>> THEN <<"X-UUID">> ELSE <<>>)
                \o <<"WriteHeader">>
                \o (IF e.Data # <<>> THEN <<"Write">> ELSE <<>>)
        IN /\ pc[r] = "idle" => trace[r] = <<>>
           /\ pc[r] = "log.Fatal" => EventNames(r) = <<"genuuid4">>
           /\ pc[r] = "os.Exit" => EventNames(r) = <<"genuuid4", "log.Fatal">>
           /\ pc[r] = "exited" => EventNames(r) = <<"genuuid4", "log.Fatal", "os.Exit">>
           /\ (pc[r] \notin {"log.Fatal", "os.Exit", "exited"}
                 /\ Count(r, "dispatch") = 0) =>
                 IsPrefix(EventNames(r), before)
           /\ Count(r, "dispatch") > 0 => IsPrefix(EventNames(r), whole)
           /\ pc[r] = "done" =>
                 /\ EventNames(r) = whole
                 /\ ~ENABLED HandlerStep(r, ControllerResults(controller.Url))

\* a Created envelope was written: Location, then X-UUID, then the status line
C9_Witness ==
    \E r \in Reqs :
        /\ pc[r] = "done"
        /\ EventNames(r) = <<"genuuid4", "logRequest", "dispatch", "logResponse",
                             "Location", "X-UUID", "WriteHeader">>

\* C10: with several requests in flight, what a request logs, passes to the
\* controller and writes is its own: its identifier, its transport request,
\* the envelope its own dispatch produced.
C10_RequestIsolation ==
    \A r \in Reqs :
        /\ \A i \in 1..Count(r, "logRequest") :
              LET e == Events(r, "logRequest")[i] IN
              /\ e.id = Generated(r)
              /\ e.method = http[r].Method
              /\ e.url = http[r].Path
        /\ \A i \in 1..Count(r, "dispatch") :
              LET e == Events(r, "dispatch")[i] IN
              e.op # "none" =>
                  /\ e.request.RequestID = Generated(r)
                  /\ e.request.HttpRequest = r
        /\ \A i \in 1..Count(r, "logResponse") :
              LET e == Events(r, "logResponse")[i] IN
              /\ e.id = Generated(r)
              /\ e.code = Returned(r).Code
        /\ \A i \in 1..Count(r, "WriteHeader") :
              Events(r, "WriteHeader")[i].code = Returned(r).Code
        /\ \A i \in 1..Count(r, "Write") :
              Events(r, "Write")[i].data = Returned(r).Data
        /\ \A i \in 1..Count(r, "Header.Set") :
              LET e == Events(r, "Header.Set")[i] IN
              e.value = (CASE e.key = "Content-Type" -> Returned(r).ContentType
                           [] e.key = "Location" -> Returned(r).Location
                           [] e.key = "X-UUID" -> Returned(r).Uuid)
        /\ \A q \in Reqs :
              (q # r /\ Count(r, "genuuid4") > 0 /\ Count(q, "genuuid4") > 0
                 /\ Generated(r) # <<>>)
                  => Generated(q) # Generated(r)

\* two requests in flight at once with different envelopes, one writing its
\* body while the other has just been dispatched
C10_Witness ==
    \E r, q \in Reqs :
        /\ pc[r] = "Write" /\ pc[q] = "logResponse"
        /\ Returned(r).Code = 200
        /\ Returned(q).Code = 201

====
